---- MODULE Spec2Model ----
(***************************************************************************)
(* Model of the preview-deployment dispatch pipeline:                      *)
(*   - statestore/firestore_client.py : claim / update / release / get    *)
(*     over the "deployments" collection, claim being a Firestore          *)
(*     read-modify-write transaction;                                      *)
(*   - githubapp/main.py : the POST /webhook handler.                      *)
(* Optional values (Python None, a dict key that is not there) are         *)
(* sequences of length at most one: <<>> is None / missing, <<v>> is v.   *)
(***************************************************************************)
EXTENDS Integers, Sequences, FiniteSets, TLC

(* ------------------------------------------------------------------ *)
(* Bounds of the model                                                 *)
(* ------------------------------------------------------------------ *)
\* events of one behaviour: store operations started (claim, update, release,
\* get) and advances of the wall clock
MaxCalls == 4
\* webhook deliveries handled in one behaviour
MaxDeliveries == 2

(* ------------------------------------------------------------------ *)
(* statestore/firestore_client.py : constants and input domains        *)
(* ------------------------------------------------------------------ *)
STATUS_PENDING == "pending"
STATUS_CLAIMED == "claimed"
STATUS_DEPLOYED == "deployed"
STATUS_FAILED == "failed"

\* processes that call the statestore (webhook instances, deployer workers)
Procs == {"p1", "p2"}

\* os.getenv("HOSTNAME") in each process: <<>> when the variable is not set
HOSTNAME(p) == IF p = "p1" THEN <<"host-1">> ELSE <<>>

\* idempotency key: {owner}/{repo}#{pr_number}:{commit_sha}
IdempotencyKey(owner, repo, pr, sha) ==
    owner \o "/" \o repo \o "#" \o ToString(pr) \o ":" \o sha

Keys == {IdempotencyKey("octo", "app", 7, "sha1")}

\* the attributes a caller passes to claim_deployment besides the key
AttrChoices ==
    { [repo |-> "octo/app", pr_number |-> 7, commit_sha |-> "sha1",
       installation_id |-> 11, comment_id |-> <<101>>],
      [repo |-> "octo/other", pr_number |-> 8, commit_sha |-> "sha2",
       installation_id |-> 12, comment_id |-> <<>>] }

\* claimed_by argument: None, the empty string, a worker name
ClaimedByInputs == {<<>>, <<"">>, <<"worker-a">>}

\* status argument of update_deployment: a str, not validated by the code
StatusInputs ==
    {STATUS_PENDING, STATUS_CLAIMED, STATUS_DEPLOYED, STATUS_FAILED, "bogus"}

\* (preview_url, release_name, namespace) arguments of update_deployment
ResultInputs ==
    { [preview_url |-> <<>>, release_name |-> <<>>, namespace |-> <<>>],
      [preview_url |-> <<"https://pr-7.preview">>, release_name |-> <<>>,
       namespace |-> <<>>],
      [preview_url |-> <<"https://pr-7.preview">>, release_name |-> <<"rel-7">>,
       namespace |-> <<"ns-7">>] }

VARIABLES
    store,      \* the deployments collection: existing document id -> document
    clock,      \* datetime.utcnow()
    pc,         \* per process: "idle" or "claim_commit" (inside the transaction)
    call,       \* per process: arguments of the claim in progress
    txn,        \* per process: the running attempt's now and doc.exists
    conflict,   \* per process: the document was written since the attempt's read
    attempt,    \* per process: number of the running transaction attempt
    calls,      \* store operations started and clock advances so far
    last,       \* the last completed store operation, with its result
    epochClaimable, \* per key: record absent or PENDING after the last update/release
    nTrue,      \* per key: claims answered True since the last update/release
    nFalse,     \* per key: claims answered False since the last update/release
    holders,    \* per key: processes answered True, not yet released/terminated
    viaClaim,   \* per key: the writes end in claim=True ("claimed"), then
                \* release ("released"), then claim=True ("reclaimed")
    deployedRC, \* per key: reached DEPLOYED, only release/claim applied since
    hpc,        \* per webhook handler: where github_webhook stands
    hloc,       \* per webhook handler: the locals of github_webhook
    trace,      \* per webhook handler: the calls made for the delivery, in order
    resp,       \* per webhook handler: the response, status 0 while there is none
    deliveries, \* webhook deliveries received so far
    comments,   \* the comments posted on the pull request, in order
    queue,      \* the deployment tasks enqueued by the webhook handlers
    fn,         \* the function applied last on its own, "none" before the first
    fnArgs,     \* the arguments it was applied to
    fnResult    \* what it returned

storeVars == <<store, clock, pc, call, txn, conflict, attempt, calls, last>>
ghostVars == <<epochClaimable, nTrue, nFalse, holders, viaClaim, deployedRC>>
webVars == <<hpc, hloc, trace, resp, deliveries, comments, queue>>
fnVars == <<fn, fnArgs, fnResult>>
vars == <<storeVars, ghostVars, webVars, fnVars>>

(* ------------------------------------------------------------------ *)
(* Python helpers                                                      *)
(* ------------------------------------------------------------------ *)
\* truthiness of an Optional[str]: None and "" are falsy
Truthy(opt) == opt # <<>> /\ opt[1] # ""

\* claimed_by or os.getenv("HOSTNAME", "unknown")
ClaimedByValue(claimed_by, host) ==
    IF Truthy(claimed_by) THEN claimed_by[1]
    ELSE IF host # <<>> THEN host[1] ELSE "unknown"

\* doc_ref.get(): a snapshot, <<>> when the document does not exist
DocGet(s, k) == IF k \in DOMAIN s THEN <<s[k]>> ELSE <<>>

\* data.get("status") of a snapshot; "<absent>" when there is no document
StatusOf(snap) == IF snap = <<>> THEN "<absent>" ELSE snap[1].status

(* ------------------------------------------------------------------ *)
(* claim_deployment._claim                                             *)
(* ------------------------------------------------------------------ *)
\* variant: only a claimed document is refused
ClaimRefusedOnlyClaimed(snap) ==
    snap # <<>> /\ snap[1].status = STATUS_CLAIMED

\* the early return False: the document exists and is claimed or deployed
ClaimRefused(snap) ==
    snap # <<>> /\ snap[1].status \in {STATUS_CLAIMED, STATUS_DEPLOYED}

\* variant: the update of an existing document leaves its status alone
ClaimWriteKeepsStatus(existed, s, c, now, host) ==
    IF existed /\ c.key \in DOMAIN s
    THEN [s[c.key] EXCEPT !.updated_at = now,
                          !.claimed_by = <<ClaimedByValue(c.claimed_by, host)>>]
    ELSE [repo |-> c.attrs.repo,
          pr_number |-> c.attrs.pr_number,
          commit_sha |-> c.attrs.commit_sha,
          installation_id |-> c.attrs.installation_id,
          comment_id |-> c.attrs.comment_id,
          preview_url |-> <<>>,
          release_name |-> <<>>,
          namespace |-> <<>>,
          claimed_by |-> <<ClaimedByValue(c.claimed_by, host)>>,
          status |-> STATUS_CLAIMED,
          updated_at |-> now,
          idempotency_key |-> c.key,
          created_at |-> now]

\* variant: the claim always writes with transaction.set, attributes included
ClaimWriteReplaces(existed, s, c, now, host) ==
    [repo |-> c.attrs.repo,
     pr_number |-> c.attrs.pr_number,
     commit_sha |-> c.attrs.commit_sha,
     installation_id |-> c.attrs.installation_id,
     comment_id |-> c.attrs.comment_id,
     preview_url |-> <<>>,
     release_name |-> <<>>,
     namespace |-> <<>>,
     claimed_by |-> <<ClaimedByValue(c.claimed_by, host)>>,
     status |-> STATUS_CLAIMED,
     updated_at |-> now,
     idempotency_key |-> c.key,
     created_at |-> now]

\* transaction.update(...) of the existing document, transaction.set(...) of a
\* new one; `existed` is doc.exists as the attempt read it, `s` the collection
\* the commit is applied to
ClaimWrite(existed, s, c, now, host) ==
    IF existed /\ c.key \in DOMAIN s
    THEN [s[c.key] EXCEPT !.status = STATUS_CLAIMED,
                          !.updated_at = now,
                          !.claimed_by = <<ClaimedByValue(c.claimed_by, host)>>]
    ELSE [repo |-> c.attrs.repo,
          pr_number |-> c.attrs.pr_number,
          commit_sha |-> c.attrs.commit_sha,
          installation_id |-> c.attrs.installation_id,
          comment_id |-> c.attrs.comment_id,
          preview_url |-> <<>>,
          release_name |-> <<>>,
          namespace |-> <<>>,
          claimed_by |-> <<ClaimedByValue(c.claimed_by, host)>>,
          status |-> STATUS_CLAIMED,
          updated_at |-> now,
          idempotency_key |-> c.key,
          created_at |-> now]

\* variant: the read and the write are not isolated, every commit goes through
TxnAlwaysCommits(p) == TRUE

\* @db.transactional: the commit of an attempt succeeds only when the document
\* it read was not written in between; otherwise the attempt is rolled back
\* and _claim runs again
TxnMayCommit(p) == ~conflict[p]

(* ------------------------------------------------------------------ *)
(* update_deployment, release_claim, get_deployment                    *)
(* ------------------------------------------------------------------ *)
\* variant: the optional arguments are written also when they are None
UpdateWriteUnconditional(doc, status, preview_url, release_name, namespace, now) ==
    [doc EXCEPT !.status = status,
                !.updated_at = now,
                !.preview_url = preview_url,
                !.release_name = release_name,
                !.namespace = namespace]

\* variant: only a record that is claimed is written
UpdateWriteIfClaimed(doc, status, preview_url, release_name, namespace, now) ==
    IF doc.status # STATUS_CLAIMED THEN doc
    ELSE [doc EXCEPT !.status = status,
                     !.updated_at = now,
                     !.preview_url = IF preview_url # <<>> THEN preview_url ELSE @,
                     !.release_name = IF release_name # <<>> THEN release_name ELSE @,
                     !.namespace = IF namespace # <<>> THEN namespace ELSE @]

\* the data dict of update_deployment applied by doc_ref.update(data)
UpdateWrite(doc, status, preview_url, release_name, namespace, now) ==
    [doc EXCEPT !.status = status,
                !.updated_at = now,
                !.preview_url = IF preview_url # <<>> THEN preview_url ELSE @,
                !.release_name = IF release_name # <<>> THEN release_name ELSE @,
                !.namespace = IF namespace # <<>> THEN namespace ELSE @]

\* variant: an update that creates the document it does not find
UpdateTargetOrBlank(s, k) ==
    IF k \in DOMAIN s THEN <<s[k]>>
    ELSE <<[repo |-> "",
            pr_number |-> 0,
            commit_sha |-> "",
            installation_id |-> 0,
            comment_id |-> <<>>,
            preview_url |-> <<>>,
            release_name |-> <<>>,
            namespace |-> <<>>,
            claimed_by |-> <<>>,
            status |-> "",
            updated_at |-> 0,
            idempotency_key |-> k,
            created_at |-> 0]>>

\* variant: the write is a set with merge, which makes the missing document
UpdateTargetUpsert(s, k) ==
    IF k \in DOMAIN s THEN <<s[k]>>
    ELSE <<[UpdateTargetOrBlank(s, k)[1] EXCEPT !.status = STATUS_PENDING]>>

\* the document doc_ref.update(data) writes to: DocumentReference.update raises
\* NotFound when the document does not exist (<<>>), and nothing catches it
UpdateTarget(s, k) == IF k \in DOMAIN s THEN <<s[k]>> ELSE <<>>

\* variant: the release clears the claimant and leaves the status
ReleaseWriteKeepsStatus(doc, now) ==
    [doc EXCEPT !.updated_at = now,
                !.claimed_by = <<>>]

\* variant: release keeps the status it replaced, in claimed_by
ReleaseWriteRecordsPrevious(doc, now) ==
    [doc EXCEPT !.status = STATUS_PENDING,
                !.updated_at = now,
                !.claimed_by = <<doc.status>>]

\* variant: release leaves claimed_by as it is
ReleaseWriteKeepsClaimant(doc, now) ==
    [doc EXCEPT !.status = STATUS_PENDING,
                !.updated_at = now]

\* the dict release_claim passes to doc_ref.update
ReleaseWrite(doc, now) ==
    [doc EXCEPT !.status = STATUS_PENDING,
                !.updated_at = now,
                !.claimed_by = <<>>]

\* variant: a missing document is returned as a dict without values
get_deployment_or_blank(s, k) ==
    <<[UpdateTargetOrBlank(s, k)[1] EXCEPT !.idempotency_key = k]>>

\* get_deployment: the document's dict with idempotency_key = doc.id, or None
get_deployment(s, k) ==
    IF k \in DOMAIN s THEN <<[s[k] EXCEPT !.idempotency_key = k]>> ELSE <<>>

(* ------------------------------------------------------------------ *)
(* githubapp/main.py : the inputs of a webhook delivery                *)
(* ------------------------------------------------------------------ *)
\* request-handling tasks that run github_webhook concurrently
Handlers == {"h1", "h2"}

GITHUB_WEBHOOK_SECRET == "whsec"

\* hexdigest of HMAC-SHA256(key, message): a collision-free digest
HexDigest(secret, body) == <<secret, body>>

Bodies == {"body-1"}

\* X-Hub-Signature-256: absent, empty, "sha1=<digest>", "sha256=<digest>" with
\* the right digest, "sha256=<digest>" made with another secret
SignatureInputs ==
    { <<>>,
      <<[scheme |-> "", hex |-> <<>>]>>,
      <<[scheme |-> "sha1=", hex |-> HexDigest(GITHUB_WEBHOOK_SECRET, "body-1")]>>,
      <<[scheme |-> "sha256=", hex |-> HexDigest(GITHUB_WEBHOOK_SECRET, "body-1")]>>,
      <<[scheme |-> "sha256=", hex |-> HexDigest("other", "body-1")]>> }

\* variant: the digest is compared whatever the prefix of the header is
verify_digest_only(payload_body, secret_token, signature) ==
    IF signature = <<>> \/ (signature[1].scheme = "" /\ signature[1].hex = <<>>)
    THEN FALSE
    ELSE signature[1].hex = HexDigest(secret_token, payload_body)

\* verify_signature(payload_body, secret_token, signature)
verify_signature(payload_body, secret_token, signature) ==
    IF signature = <<>> \/ (signature[1].scheme = "" /\ signature[1].hex = <<>>)
    THEN FALSE
    ELSE IF signature[1].scheme # "sha256="
    THEN FALSE
    ELSE signature[1].hex = HexDigest(secret_token, payload_body)

\* the request body: a JSON object, not JSON, JSON that is not an object
JsonInputs == {"object", "invalid", "not_object"}
EventInputs == {"issue_comment", "push"}
\* repository.owner.login, repository.name, repository.id, issue.number
OwnerInputs == {<<>>, <<"octo">>}
RepoNameInputs == {<<>>, <<"app">>}
RepositoryIdInputs == {<<>>, <<900>>}
PrNumberInputs == {<<>>, <<7>>}
\* X-GitHub-Hook-Installation-Target-ID and installation.id of the payload
HeaderInputs == {<<>>, <<"55">>, <<"900">>, <<"abc">>}
PayloadInstallationInputs == {<<>>, <<66>>}
ActionInputs == {"created", "edited"}
HtmlUrlInputs ==
    { "https://github.com/octo/app/pull/7",
      "https://github.com/octo/app/issues/7",
      "https://github.com/octo/pull-app/issues/7" }

\* int(x): <<>> stands for ValueError
ParseInt(str) ==
    CASE str = "55" -> <<55>>
      [] str = "900" -> <<900>>
      [] str = "0" -> <<0>>
      [] OTHER -> <<>>

\* truthiness of an Optional[int]: None and 0 are falsy
IntTruthy(opt) == opt # <<>> /\ opt[1] # 0

\* str.lower()
Lower(str) == CASE str \in {"Octo", "OCTO"} -> "octo" [] OTHER -> str

\* "pull" in issue.get("html_url", "")
ContainsPull(url) ==
    url \in { "https://github.com/octo/app/pull/7",
              "https://github.com/octo/pull-app/issues/7" }

\* a line of a comment: its text and whether blanks surround it
Line(text, padded) == [text |-> text, padded |-> padded]

\* comment.get("body", ""), as its lines
CommentBodies ==
    { <<>>,
      <<Line("please review", FALSE)>>,
      <<Line("please review", FALSE), Line("/preview", TRUE), Line("thanks", FALSE)>>,
      <<Line("/preview now", FALSE), Line("/preview", FALSE)>> }

\* line.strip().startswith('/preview')
StartsWithPreview(line) == line.text \in {"/preview", "/preview now"}

\* variant: the last line that starts with /preview gives the command
extract_last_command(comment_body) ==
    LET hits == {i \in 1..Len(comment_body) : StartsWithPreview(comment_body[i])} IN
    IF hits = {} THEN <<>>
    ELSE LET final == CHOOSE i \in hits : \A j \in hits : i >= j IN
         <<[command |-> "preview", raw |-> comment_body[final].text]>>

\* extract_command(comment_body): the first line that starts with /preview
extract_command(comment_body) ==
    LET hits == {i \in 1..Len(comment_body) : StartsWithPreview(comment_body[i])} IN
    IF hits = {} THEN <<>>
    ELSE LET first == CHOOSE i \in hits : \A j \in hits : i <= j IN
         <<[command |-> "preview", raw |-> comment_body[first].text]>>

\* variant: the header's integer is taken also when it is the repository id
InstallationKeepsRepositoryId(header, repository_id, payload_installation) ==
    LET potential_id == IF Truthy(header) THEN ParseInt(header[1]) ELSE <<>>
    IN IF IntTruthy(potential_id) THEN potential_id ELSE payload_installation

\* variant: the payload's installation.id is taken before the header
InstallationPayloadFirst(header, repository_id, payload_installation) ==
    LET potential_id == IF Truthy(header) THEN ParseInt(header[1]) ELSE <<>>
        from_header ==
            IF potential_id = <<>> THEN <<>>
            ELSE IF IntTruthy(repository_id) /\ potential_id[1] = repository_id[1]
            THEN <<>>
            ELSE potential_id
    IN IF IntTruthy(payload_installation) THEN payload_installation ELSE from_header

\* variant: a header that is no integer ends the resolution without an id
InstallationHeaderErrorEnds(header, repository_id, payload_installation) ==
    LET potential_id == IF Truthy(header) THEN ParseInt(header[1]) ELSE <<>>
        from_header ==
            IF potential_id = <<>> THEN <<>>
            ELSE IF IntTruthy(repository_id) /\ potential_id[1] = repository_id[1]
            THEN <<>>
            ELSE potential_id
    IN IF Truthy(header) /\ potential_id = <<>> THEN <<>>
       ELSE IF IntTruthy(from_header) THEN from_header ELSE payload_installation

\* installation id from the header, unless it is the repository id, else from
\* the payload
InstallationFromRequest(header, repository_id, payload_installation) ==
    LET potential_id == IF Truthy(header) THEN ParseInt(header[1]) ELSE <<>>
        from_header ==
            IF potential_id = <<>> THEN <<>>
            ELSE IF IntTruthy(repository_id) /\ potential_id[1] = repository_id[1]
            THEN <<>>
            ELSE potential_id
    IN IF IntTruthy(from_header) THEN from_header ELSE payload_installation

\* responses of GET /users/{owner}/installation and /orgs/{owner}/installation
LookupIdInputs == {<<>>, <<77>>}

Installation(id, login) == [id |-> <<id>>, login |-> <<login>>]

\* responses of GET /app/installations
InstallationLists ==
    { <<>>,
      <<Installation(78, "someone")>>,
      <<Installation(78, "someone"), Installation(79, "Octo")>>,
      <<Installation(78, "someone"), Installation(80, "else")>> }

\* variant: the account login is compared with repo_owner as it is written
InstallationFromListCaseSensitive(installations, repo_owner) ==
    IF Len(installations) = 0 THEN <<>>
    ELSE IF Len(installations) = 1 THEN installations[1].id
    ELSE LET hits == {i \in 1..Len(installations) :
                        installations[i].login[1] = repo_owner}
             matched == IF hits = {} THEN <<>>
                        ELSE installations[CHOOSE i \in hits : \A j \in hits : i <= j].id
         IN IF IntTruthy(matched) THEN matched ELSE installations[1].id

\* the choice among the listed installations
InstallationFromList(installations, repo_owner) ==
    IF Len(installations) = 0 THEN <<>>
    ELSE IF Len(installations) = 1 THEN installations[1].id
    ELSE LET hits == {i \in 1..Len(installations) :
                        Lower(installations[i].login[1]) = Lower(repo_owner)}
             matched == IF hits = {} THEN <<>>
                        ELSE installations[CHOOSE i \in hits : \A j \in hits : i <= j].id
         IN IF IntTruthy(matched) THEN matched ELSE installations[1].id

\* head.sha of the pull request
Shas == {"sha1", "sha2"}

\* the keys the handled deliveries resolve to
WebKeys == {IdempotencyKey("octo", "app", 7, sha) : sha \in Shas}

\* what an attempt to post a comment ends in, inside post_comment_to_pr
PostOutcomes ==
    {"posted", "posted_unchecked", "token_failed", "repo_denied", "post_failed",
     "exception"}

\* the comment was created (201): after a repository check that answered 200
\* and an issue check, or after a repository check that answered otherwise
CommentPosted(outcome) == outcome \in {"posted", "posted_unchecked"}

\* the requests post_comment_to_pr makes before it returns
PostCommentCalls(outcome) ==
    CASE outcome = "exception" -> <<>>
      [] outcome = "token_failed" -> <<"token">>
      [] outcome = "repo_denied" -> <<"token", "repo_check">>
      [] outcome = "posted_unchecked" -> <<"token", "repo_check", "comment_post">>
      [] OTHER -> <<"token", "repo_check", "issue_check", "comment_post">>

NoLocals ==
    [pr_number |-> <<>>, commit_sha |-> <<>>, installation_id |-> <<>>,
     body |-> <<>>, signature |-> <<>>, repo_owner |-> <<>>, json |-> "",
     event |-> "", repo_name |-> <<>>]

NoResponse == [status |-> 0, message |-> ""]

\* the key of the delivery handler h works on, once the head commit is known
KeyOf(h) ==
    IF hloc[h].commit_sha = <<>> \/ hloc[h].repo_owner = <<>>
       \/ hloc[h].repo_name = <<>> \/ hloc[h].pr_number = <<>>
    THEN <<>>
    ELSE <<IdempotencyKey(hloc[h].repo_owner[1], hloc[h].repo_name[1],
                          hloc[h].pr_number[1], hloc[h].commit_sha[1])>>

(* ------------------------------------------------------------------ *)
(* Bookkeeping                                                         *)
(* ------------------------------------------------------------------ *)
NoAttrs ==
    [repo |-> "", pr_number |-> 0, commit_sha |-> "", installation_id |-> 0,
     comment_id |-> <<>>]

NoArgs ==
    [preview_url |-> <<>>, release_name |-> <<>>, namespace |-> <<>>,
     status |-> <<>>]

NoCall == [claimed_by |-> <<>>, key |-> "", attrs |-> NoAttrs]

NoTxn == [existed |-> FALSE, now |-> 0]

\* the record of a completed operation: seq numbers the completed operations
Completed(op, k, args, result, doc, n) ==
    [key |-> k,
     doc |-> doc,
     op |-> op,
     args |-> args,
     result |-> result,
     seq |-> last.seq + 1,
     attempts |-> n]

\* a committed write to document k invalidates the running attempts that read it
Invalidate(p, k) ==
    [q \in Procs |->
        IF q # p /\ pc[q] = "claim_commit" /\ call[q].key = k
        THEN TRUE ELSE conflict[q]]

\* the collection with document k written
Put(s, k, doc) == [x \in DOMAIN s \cup {k} |-> IF x = k THEN doc ELSE s[x]]

Init ==
    /\ store = <<>>
    /\ clock = 0
    /\ pc = [p \in Procs |-> "idle"]
    /\ call = [p \in Procs |-> NoCall]
    /\ txn = [p \in Procs |-> NoTxn]
    /\ conflict = [p \in Procs |-> FALSE]
    /\ attempt = [p \in Procs |-> 0]
    /\ calls = 0
    /\ last = [key |-> "", doc |-> <<>>, op |-> "none", args |-> NoArgs,
               result |-> "none", seq |-> 0, attempts |-> 0]
    /\ epochClaimable = [k \in Keys |-> TRUE]
    /\ nTrue = [k \in Keys |-> 0]
    /\ nFalse = [k \in Keys |-> 0]
    /\ holders = [k \in Keys |-> {}]
    /\ viaClaim = [k \in Keys |-> "none"]
    /\ deployedRC = [k \in Keys |-> FALSE]
    /\ hpc = [h \in Handlers |-> "idle"]
    /\ hloc = [h \in Handlers |-> NoLocals]
    /\ trace = [h \in Handlers |-> <<>>]
    /\ resp = [h \in Handlers |-> NoResponse]
    /\ deliveries = 0
    /\ comments = <<>>
    /\ queue = <<>>
    /\ fn = "none"
    /\ fnArgs = <<>>
    /\ fnResult = <<>>

(* ------------------------------------------------------------------ *)
(* History of the claims answered per key                              *)
(* ------------------------------------------------------------------ *)
\* a claim on k was answered True to p
NoteClaimTrue(p, k) ==
    /\ nTrue' = [nTrue EXCEPT ![k] = @ + 1]
    /\ holders' = [holders EXCEPT ![k] = @ \cup {p}]
    /\ viaClaim' = [viaClaim EXCEPT ![k] =
                       IF @ = "released" THEN "reclaimed" ELSE "claimed"]
    /\ UNCHANGED <<epochClaimable, nFalse, deployedRC>>

\* a claim on k was answered False
NoteClaimFalse(k) ==
    /\ nFalse' = [nFalse EXCEPT ![k] = @ + 1]
    /\ UNCHANGED <<epochClaimable, nTrue, holders, viaClaim, deployedRC>>

\* update_deployment wrote status to the existing document k
NoteUpdate(k, status) ==
    /\ epochClaimable' = [epochClaimable EXCEPT ![k] = (status = STATUS_PENDING)]
    /\ nTrue' = [nTrue EXCEPT ![k] = 0]
    /\ nFalse' = [nFalse EXCEPT ![k] = 0]
    /\ holders' = [holders EXCEPT ![k] =
                      IF status \in {STATUS_DEPLOYED, STATUS_FAILED} THEN {} ELSE @]
    /\ viaClaim' = [viaClaim EXCEPT ![k] = "none"]
    /\ deployedRC' = [deployedRC EXCEPT ![k] = (status = STATUS_DEPLOYED)]

\* release_claim wrote the existing document k
NoteRelease(k) ==
    /\ epochClaimable' = [epochClaimable EXCEPT ![k] = TRUE]
    /\ nTrue' = [nTrue EXCEPT ![k] = 0]
    /\ nFalse' = [nFalse EXCEPT ![k] = 0]
    /\ holders' = [holders EXCEPT ![k] = {}]
    /\ viaClaim' = [viaClaim EXCEPT ![k] =
                       IF @ \in {"claimed", "reclaimed"} THEN "released"
                       ELSE "none"]
    /\ UNCHANGED deployedRC

(* ------------------------------------------------------------------ *)
(* claim_deployment                                                    *)
(* ------------------------------------------------------------------ *)
\* one run of _claim for the call c of process p, as attempt number n: the
\* transactional read and the branch on it. The refusal returns False (the
\* transaction has nothing to write); otherwise the write waits for the commit.
ClaimAttempt(p, c, n) ==
    LET snap == DocGet(store, c.key) IN
    IF ClaimRefused(snap)
    THEN /\ pc' = [pc EXCEPT ![p] = "idle"]
         /\ call' = [call EXCEPT ![p] = NoCall]
         /\ txn' = [txn EXCEPT ![p] = NoTxn]
         /\ conflict' = [conflict EXCEPT ![p] = FALSE]
         /\ attempt' = [attempt EXCEPT ![p] = 0]
         /\ last' = Completed("claim", c.key, NoArgs, "False", <<>>, n)
         /\ NoteClaimFalse(c.key)
         /\ UNCHANGED store
    ELSE /\ pc' = [pc EXCEPT ![p] = "claim_commit"]
         /\ call' = [call EXCEPT ![p] = c]
         /\ txn' = [txn EXCEPT ![p] = [existed |-> snap # <<>>,
                                       now |-> clock]]
         /\ conflict' = [conflict EXCEPT ![p] = FALSE]
         /\ attempt' = [attempt EXCEPT ![p] = n]
         /\ UNCHANGED <<store, last, ghostVars>>

\* claim_deployment(key, repo, pr_number, commit_sha, installation_id,
\* comment_id, claimed_by) is called: the first attempt of the transaction
ClaimStart(p, k, a, cb) ==
    /\ UNCHANGED <<webVars, fnVars>>
    /\ pc[p] = "idle"
    /\ calls < MaxCalls
    /\ calls' = calls + 1
    /\ ClaimAttempt(p, [claimed_by |-> cb,
                        key |-> k,
                        attrs |-> a], 1)
    /\ UNCHANGED clock

\* the commit of the attempt: the write is applied and _claim's True returned
ClaimCommit(p) ==
    /\ UNCHANGED <<webVars, fnVars>>
    /\ pc[p] = "claim_commit"
    /\ TxnMayCommit(p)
    /\ LET c == call[p] IN
        /\ store' = Put(store, c.key,
                        ClaimWrite(txn[p].existed, store, c, txn[p].now, HOSTNAME(p)))
        /\ conflict' = [Invalidate(p, c.key) EXCEPT ![p] = FALSE]
        /\ last' = Completed("claim", c.key, NoArgs, "True", <<>>, attempt[p])
        /\ NoteClaimTrue(p, c.key)
    /\ pc' = [pc EXCEPT ![p] = "idle"]
    /\ call' = [call EXCEPT ![p] = NoCall]
    /\ txn' = [txn EXCEPT ![p] = NoTxn]
    /\ attempt' = [attempt EXCEPT ![p] = 0]
    /\ UNCHANGED <<clock, calls>>

\* the commit fails on contention: the attempt is rolled back and _claim runs
\* again on the document as it is now
ClaimRetry(p) ==
    /\ UNCHANGED <<webVars, fnVars>>
    /\ pc[p] = "claim_commit"
    /\ ~TxnMayCommit(p)
    /\ ClaimAttempt(p, call[p], attempt[p] + 1)
    /\ UNCHANGED <<clock, calls>>

(* ------------------------------------------------------------------ *)
(* update_deployment, release_claim, get_deployment as operations      *)
(* ------------------------------------------------------------------ *)
\* doc_ref.update(data) raises NotFound when the document does not exist
UpdateDeployment(p, k, status, preview_url, release_name, namespace) ==
    /\ UNCHANGED <<webVars, fnVars>>
    /\ pc[p] = "idle"
    /\ calls < MaxCalls
    /\ calls' = calls + 1
    /\ LET args == [NoArgs EXCEPT !.status = <<status>>,
                                  !.preview_url = preview_url,
                                  !.release_name = release_name,
                                  !.namespace = namespace] IN
       IF UpdateTarget(store, k) # <<>>
       THEN /\ store' = Put(store, k,
                   UpdateWrite(UpdateTarget(store, k)[1], status, preview_url,
                               release_name, namespace, clock))
            /\ conflict' = Invalidate(p, k)
            /\ last' = Completed("update", k, args, "ok", <<>>, 0)
            /\ NoteUpdate(k, status)
       ELSE /\ last' = Completed("update", k, args, "NotFound", <<>>, 0)
            /\ UNCHANGED <<store, conflict, ghostVars>>
    /\ UNCHANGED <<clock, pc, call, txn, attempt>>

ReleaseClaim(p, k) ==
    /\ UNCHANGED <<webVars, fnVars>>
    /\ pc[p] = "idle"
    /\ calls < MaxCalls
    /\ calls' = calls + 1
    /\ IF k \in DOMAIN store
       THEN /\ store' = Put(store, k, ReleaseWrite(store[k], clock))
            /\ conflict' = Invalidate(p, k)
            /\ last' = Completed("release", k, NoArgs, "ok", <<>>, 0)
            /\ NoteRelease(k)
       ELSE /\ last' = Completed("release", k, NoArgs, "NotFound", <<>>, 0)
            /\ UNCHANGED <<store, conflict, ghostVars>>
    /\ UNCHANGED <<clock, pc, call, txn, attempt>>

GetDeployment(p, k) ==
    /\ UNCHANGED <<webVars, fnVars>>
    /\ pc[p] = "idle"
    /\ calls < MaxCalls
    /\ calls' = calls + 1
    /\ last' = Completed("get", k, NoArgs,
                         IF get_deployment(store, k) = <<>> THEN "None" ELSE "dict",
                         get_deployment(store, k), 0)
    /\ UNCHANGED <<store, clock, pc, call, txn, conflict, attempt, ghostVars>>

\* time passes
Tick ==
    /\ UNCHANGED <<webVars, fnVars>>
    /\ calls < MaxCalls
    /\ calls' = calls + 1
    /\ clock' = clock + 1
    /\ UNCHANGED <<store, pc, call, txn, conflict, attempt, last, ghostVars>>

Next ==
    \/ \E p \in Procs, k \in Keys, a \in AttrChoices, cb \in ClaimedByInputs :
          ClaimStart(p, k, a, cb)
    \/ \E p \in Procs : ClaimCommit(p)
    \/ \E p \in Procs : ClaimRetry(p)
    \/ \E p \in Procs, k \in Keys, st \in StatusInputs, r \in ResultInputs :
          UpdateDeployment(p, k, st, r.preview_url, r.release_name, r.namespace)
    \/ \E p \in Procs, k \in Keys : ReleaseClaim(p, k)
    \/ \E p \in Procs, k \in Keys : GetDeployment(p, k)
    \/ Tick

Spec == Init /\ [][Next]_vars

(* ------------------------------------------------------------------ *)
(* githubapp/main.py : github_webhook, one action per stretch of code  *)
(* between two awaited network calls                                   *)
(* ------------------------------------------------------------------ *)
\* the handler answers: a returned JSONResponse or a raised exception
Finish(h, status, message, events) ==
    /\ hpc' = [hpc EXCEPT ![h] = "done"]
    /\ resp' = [resp EXCEPT ![h] = [status |-> status, message |-> message]]
    /\ trace' = [trace EXCEPT ![h] = @ \o events]

\* the handler goes on to the code at `to`
Goto(h, to, events) ==
    /\ hpc' = [hpc EXCEPT ![h] = to]
    /\ trace' = [trace EXCEPT ![h] = @ \o events]
    /\ UNCHANGED resp

\* variant: the body is parsed before the signature is checked
AdmissionParsesFirst(body, signature, json, event) ==
    IF json = "invalid"
    THEN [status |-> 400, message |-> "invalid_json", events |-> <<"json">>]
    ELSE IF ~verify_signature(body, GITHUB_WEBHOOK_SECRET, signature)
    THEN [status |-> 401, message |-> "invalid_signature",
          events |-> <<"json", "verify">>]
    ELSE IF event # "issue_comment"
    THEN [status |-> 200, message |-> "event_ignored",
          events |-> <<"json", "verify">>]
    ELSE IF json = "not_object"
    THEN [status |-> 500, message |-> "error", events |-> <<"json", "verify">>]
    ELSE [status |-> 0, message |-> "", events |-> <<"json", "verify">>]

\* the head of github_webhook: the signature check, then request.json(), then
\* the event type, then the payload.get calls, which raise AttributeError on
\* JSON that is not an object (nothing catches it: status 500); status 0
\* stands for "the handler goes on"
Admission(body, signature, json, event) ==
    IF ~verify_signature(body, GITHUB_WEBHOOK_SECRET, signature)
    THEN [status |-> 401, message |-> "invalid_signature", events |-> <<"verify">>]
    ELSE IF json = "invalid"
    THEN [status |-> 400, message |-> "invalid_json", events |-> <<"verify", "json">>]
    ELSE IF event # "issue_comment"
    THEN [status |-> 200, message |-> "event_ignored",
          events |-> <<"verify", "json">>]
    ELSE IF json = "not_object"
    THEN [status |-> 500, message |-> "error", events |-> <<"verify", "json">>]
    ELSE [status |-> 0, message |-> "", events |-> <<"verify", "json">>]

\* the request arrives: the head of the handler, then the installation id of
\* the header and of the payload
HandleRequest(h, body, signature, json, event, owner, repository_id, header, payload_installation) ==
    /\ hpc[h] \in {"idle", "done"}
    /\ deliveries < MaxDeliveries
    /\ deliveries' = deliveries + 1
    /\ LET installation_id ==
               InstallationFromRequest(header, repository_id, payload_installation)
           admission == Admission(body, signature, json, event)
           request == [NoLocals EXCEPT !.body = <<body>>,
                                       !.signature = signature,
                                       !.json = json,
                                       !.event = event]
       IN
       /\ trace' = [trace EXCEPT ![h] = admission.events]
       /\ resp' = [resp EXCEPT ![h] =
                      [status |-> admission.status, message |-> admission.message]]
       /\ IF admission.status # 0
          THEN /\ hpc' = [hpc EXCEPT ![h] = "done"]
               /\ hloc' = [hloc EXCEPT ![h] = request]
          ELSE /\ hpc' = [hpc EXCEPT ![h] =
                             IF ~IntTruthy(installation_id) /\ Truthy(owner)
                             THEN "lookup_user" ELSE "filters"]
               /\ hloc' = [hloc EXCEPT ![h] =
                              [request EXCEPT !.installation_id = installation_id,
                                              !.repo_owner = owner]]
    /\ UNCHANGED <<comments, queue, storeVars, ghostVars, fnVars>>

\* how a lookup ends: generate_jwt_token raises before any request ("no_jwt"),
\* the request raises ("raise"), or it is answered with a status
UserLookupOutcomes == {"no_jwt", "raise", "200", "404", "500"}
OrgLookupOutcomes == {"raise", "200", "404"}
ListOutcomes == {"raise", "200", "500"}

\* variant: the organisation is looked up after any failure of the user lookup
LookupUserThenOrgOnAnyFailure(h, outcome, id) ==
    /\ hpc[h] = "lookup_user"
    /\ CASE outcome = "no_jwt" ->
              Goto(h, "filters", <<>>) /\ UNCHANGED hloc
         [] outcome = "raise" ->
              Goto(h, "filters", <<"user_lookup">>) /\ UNCHANGED hloc
         [] outcome = "200" ->
              /\ Goto(h, IF IntTruthy(id) THEN "filters" ELSE "lookup_list",
                      <<"user_lookup">>)
              /\ hloc' = [hloc EXCEPT ![h].installation_id = id]
         [] OTHER ->
              Goto(h, "lookup_org", <<"user_lookup">>) /\ UNCHANGED hloc
    /\ UNCHANGED <<deliveries, comments, queue, storeVars, ghostVars, fnVars>>

\* GET /users/{repo_owner}/installation
LookupUser(h, outcome, id) ==
    /\ hpc[h] = "lookup_user"
    /\ CASE outcome = "no_jwt" ->
              Goto(h, "filters", <<>>) /\ UNCHANGED hloc
         [] outcome = "raise" ->
              Goto(h, "filters", <<"user_lookup">>) /\ UNCHANGED hloc
         [] outcome = "200" ->
              /\ Goto(h, IF IntTruthy(id) THEN "filters" ELSE "lookup_list",
                      <<"user_lookup">>)
              /\ hloc' = [hloc EXCEPT ![h].installation_id = id]
         [] outcome = "404" ->
              Goto(h, "lookup_org", <<"user_lookup">>) /\ UNCHANGED hloc
         [] OTHER ->
              Goto(h, "lookup_list", <<"user_lookup">>) /\ UNCHANGED hloc
    /\ UNCHANGED <<deliveries, comments, queue, storeVars, ghostVars, fnVars>>

\* GET /orgs/{repo_owner}/installation
LookupOrg(h, outcome, id) ==
    /\ hpc[h] = "lookup_org"
    /\ CASE outcome = "raise" ->
              Goto(h, "filters", <<"org_lookup">>) /\ UNCHANGED hloc
         [] outcome = "200" ->
              /\ Goto(h, IF IntTruthy(id) THEN "filters" ELSE "lookup_list",
                      <<"org_lookup">>)
              /\ hloc' = [hloc EXCEPT ![h].installation_id = id]
         [] OTHER ->
              Goto(h, "lookup_list", <<"org_lookup">>) /\ UNCHANGED hloc
    /\ UNCHANGED <<deliveries, comments, queue, storeVars, ghostVars, fnVars>>

\* GET /app/installations
LookupList(h, outcome, installations) ==
    /\ hpc[h] = "lookup_list"
    /\ Goto(h, "filters", <<"list_installations">>)
    /\ hloc' = [hloc EXCEPT ![h].installation_id =
                   IF outcome = "200"
                   THEN InstallationFromList(installations, hloc[h].repo_owner[1])
                   ELSE <<>>]
    /\ UNCHANGED <<deliveries, comments, queue, storeVars, ghostVars, fnVars>>

\* variant: a delivery without an installation id is not turned away
FiltersWithoutInstallationCheck(h, action, html_url, pr_number, repo_name, comment_body) ==
    /\ hpc[h] = "filters"
    /\ IF action # "created"
       THEN Finish(h, 200, "action_ignored", <<>>) /\ UNCHANGED hloc
       ELSE IF ~ContainsPull(html_url)
       THEN Finish(h, 200, "not_a_pr", <<>>) /\ UNCHANGED hloc
       ELSE IF ~IntTruthy(pr_number)
       THEN Finish(h, 200, "no_pr_number", <<>>) /\ UNCHANGED hloc
       ELSE IF ~(Truthy(hloc[h].repo_owner) /\ Truthy(repo_name))
       THEN Finish(h, 200, "missing_repo", <<>>) /\ UNCHANGED hloc
       ELSE IF extract_command(comment_body) = <<>>
       THEN Finish(h, 200, "no_command", <<>>) /\ UNCHANGED hloc
       ELSE /\ Goto(h, "token", <<>>)
            /\ hloc' = [hloc EXCEPT ![h].pr_number = pr_number,
                                    ![h].repo_name = repo_name]
    /\ UNCHANGED <<deliveries, comments, queue, storeVars, ghostVars, fnVars>>

\* the checks of the event after the installation lookup
Filters(h, action, html_url, pr_number, repo_name, comment_body) ==
    /\ hpc[h] = "filters"
    /\ IF action # "created"
       THEN Finish(h, 200, "action_ignored", <<>>) /\ UNCHANGED hloc
       ELSE IF ~ContainsPull(html_url)
       THEN Finish(h, 200, "not_a_pr", <<>>) /\ UNCHANGED hloc
       ELSE IF ~IntTruthy(pr_number)
       THEN Finish(h, 200, "no_pr_number", <<>>) /\ UNCHANGED hloc
       ELSE IF ~IntTruthy(hloc[h].installation_id)
       THEN Finish(h, 200, "no_installation", <<>>) /\ UNCHANGED hloc
       ELSE IF ~(Truthy(hloc[h].repo_owner) /\ Truthy(repo_name))
       THEN Finish(h, 200, "missing_repo", <<>>) /\ UNCHANGED hloc
       ELSE IF extract_command(comment_body) = <<>>
       THEN Finish(h, 200, "no_command", <<>>) /\ UNCHANGED hloc
       ELSE /\ Goto(h, "token", <<>>)
            /\ hloc' = [hloc EXCEPT ![h].pr_number = pr_number,
                                    ![h].repo_name = repo_name]
    /\ UNCHANGED <<deliveries, comments, queue, storeVars, ghostVars, fnVars>>

\* POST /app/installations/{installation_id}/access_tokens
TokenExchange(h, outcome) ==
    /\ hpc[h] = "token"
    /\ CASE outcome = "no_jwt" -> Goto(h, "post_ack", <<>>)
         [] outcome = "raise" -> Goto(h, "post_ack", <<"token">>)
         [] outcome = "201" -> Goto(h, "pr_fetch", <<"token">>)
         [] OTHER -> Finish(h, 200, "token_failed", <<"token">>)
    /\ UNCHANGED <<hloc, deliveries, comments, queue, storeVars, ghostVars, fnVars>>

\* GET /repos/{repo_owner}/{repo_name}/pulls/{pr_number}
PrFetch(h, outcome, sha) ==
    /\ hpc[h] = "pr_fetch"
    /\ CASE outcome = "raise" ->
              Goto(h, "post_ack", <<"pr_fetch">>) /\ UNCHANGED hloc
         [] outcome = "200" /\ sha # <<>> ->
              /\ Goto(h, "post_ack", <<"pr_fetch">>)
              /\ hloc' = [hloc EXCEPT ![h].commit_sha = sha]
         [] outcome = "200" /\ sha = <<>> ->
              Goto(h, "post_no_sha", <<"pr_fetch">>) /\ UNCHANGED hloc
         [] OTHER ->
              Goto(h, "post_pr_failed", <<"pr_fetch">>) /\ UNCHANGED hloc
    /\ UNCHANGED <<deliveries, comments, queue, storeVars, ghostVars, fnVars>>

\* variant: an exception of the transport leaves post_comment_to_pr
PostFailureRaising(h, outcome) ==
    /\ hpc[h] \in {"post_pr_failed", "post_no_sha"}
    /\ comments' = IF CommentPosted(outcome)
                   THEN Append(comments, [key |-> KeyOf(h),
                                          kind |-> "failure"])
                   ELSE comments
    /\ IF outcome = "exception"
       THEN Finish(h, 500, "error", PostCommentCalls(outcome))
       ELSE Finish(h, 200,
                   IF hpc[h] = "post_pr_failed" THEN "pr_failed" ELSE "no_sha",
                   PostCommentCalls(outcome))
    /\ UNCHANGED <<hloc, deliveries, queue, storeVars, ghostVars, fnVars>>

\* post_comment_to_pr with a failure text, then the 200 response
PostFailure(h, outcome) ==
    /\ hpc[h] \in {"post_pr_failed", "post_no_sha"}
    /\ comments' = IF CommentPosted(outcome)
                   THEN Append(comments, [key |-> KeyOf(h),
                                          kind |-> "failure"])
                   ELSE comments
    /\ Finish(h, 200,
              IF hpc[h] = "post_pr_failed" THEN "pr_failed" ELSE "no_sha",
              PostCommentCalls(outcome))
    /\ UNCHANGED <<hloc, deliveries, queue, storeVars, ghostVars, fnVars>>

\* a handler that also hands a deployment task to the queue after the comment
PostAckThenEnqueue(h, outcome) ==
    /\ hpc[h] = "post_ack"
    /\ comments' = IF CommentPosted(outcome)
                   THEN Append(comments, [key |-> KeyOf(h),
                                          kind |-> "ack"])
                   ELSE comments
    /\ queue' = Append(queue, [key |-> KeyOf(h)])
    /\ Finish(h, 200, "waaaa", PostCommentCalls(outcome))
    /\ UNCHANGED <<hloc, deliveries, storeVars, ghostVars, fnVars>>

\* post_comment_to_pr with "Deployment requested!", then the 200 response
PostAck(h, outcome) ==
    /\ hpc[h] = "post_ack"
    /\ comments' = IF CommentPosted(outcome)
                   THEN Append(comments, [key |-> KeyOf(h),
                                          kind |-> "ack"])
                   ELSE comments
    /\ Finish(h, 200, "waaaa", PostCommentCalls(outcome))
    /\ UNCHANGED <<hloc, deliveries, queue, storeVars, ghostVars, fnVars>>

\* deliveries handled one after the other, with every shape of request
SerialHandlers == {"h1"}

WebhookNext ==
    \/ \E h \in SerialHandlers, body \in Bodies, signature \in SignatureInputs,
          json \in JsonInputs, event \in EventInputs, owner \in OwnerInputs,
          repository_id \in RepositoryIdInputs, header \in HeaderInputs,
          payload_installation \in PayloadInstallationInputs :
          HandleRequest(h, body, signature, json, event, owner, repository_id,
                        header, payload_installation)
    \/ \E h \in SerialHandlers, outcome \in UserLookupOutcomes,
          id \in LookupIdInputs : LookupUser(h, outcome, id)
    \/ \E h \in SerialHandlers, outcome \in OrgLookupOutcomes,
          id \in LookupIdInputs : LookupOrg(h, outcome, id)
    \/ \E h \in SerialHandlers, outcome \in ListOutcomes,
          installations \in InstallationLists : LookupList(h, outcome, installations)
    \/ \E h \in SerialHandlers, action \in ActionInputs, html_url \in HtmlUrlInputs,
          pr_number \in PrNumberInputs, repo_name \in RepoNameInputs,
          comment_body \in CommentBodies :
          Filters(h, action, html_url, pr_number, repo_name, comment_body)
    \/ \E h \in SerialHandlers, outcome \in {"no_jwt", "raise", "201", "401"} :
          TokenExchange(h, outcome)
    \/ \E h \in SerialHandlers, outcome \in {"raise", "200", "404"},
          sha \in {<<>>} \cup {<<x>> : x \in Shas} : PrFetch(h, outcome, sha)
    \/ \E h \in SerialHandlers, outcome \in PostOutcomes : PostFailure(h, outcome)
    \/ \E h \in SerialHandlers, outcome \in PostOutcomes : PostAck(h, outcome)

WebhookSpec == Init /\ [][WebhookNext]_vars

\* a delivery that passes every check: a signed issue_comment event, action
\* created, on pull request octo/app#7, with a /preview line, installation 55
ValidSignature ==
    <<[scheme |-> "sha256=", hex |-> HexDigest(GITHUB_WEBHOOK_SECRET, "body-1")]>>

PreviewComment ==
    <<Line("please review", FALSE), Line("/preview", TRUE), Line("thanks", FALSE)>>

\* such deliveries, handled concurrently, next to the deployer worker, which
\* claims a key and then reports it deployed
DeliveryNext ==
    \/ \E h \in Handlers :
          HandleRequest(h, "body-1", ValidSignature, "object", "issue_comment",
                        <<"octo">>, <<900>>, <<"55">>, <<>>)
    \/ \E h \in Handlers :
          Filters(h, "created", "https://github.com/octo/app/pull/7", <<7>>,
                  <<"app">>, PreviewComment)
    \/ \E h \in Handlers, outcome \in {"no_jwt", "raise", "201", "401"} :
          TokenExchange(h, outcome)
    \/ \E h \in Handlers, outcome \in {"raise", "200", "404"},
          sha \in {<<>>} \cup {<<x>> : x \in Shas} : PrFetch(h, outcome, sha)
    \/ \E h \in Handlers, outcome \in PostOutcomes : PostFailure(h, outcome)
    \/ \E h \in Handlers, outcome \in PostOutcomes : PostAck(h, outcome)
    \/ \E k \in Keys, a \in AttrChoices :
          /\ k \notin DOMAIN store
          /\ IdempotencyKey("octo", "app", a.pr_number, a.commit_sha) = k
          /\ ClaimStart("p1", k, a, <<>>)
    \/ ClaimCommit("p1")
    \/ \E k \in Keys :
          /\ StatusOf(DocGet(store, k)) = STATUS_CLAIMED
          /\ UpdateDeployment("p1", k, STATUS_DEPLOYED, <<"https://pr-7.preview">>,
                              <<>>, <<>>)

DeliverySpec == Init /\ [][DeliveryNext]_vars

(* ------------------------------------------------------------------ *)
(* The functions applied on their own                                  *)
(* ------------------------------------------------------------------ *)
\* the function returned
Returned(name, args, result) ==
    /\ fn' = name
    /\ fnArgs' = args
    /\ fnResult' = result
    /\ UNCHANGED <<storeVars, ghostVars, webVars>>

\* bodies, secrets and X-Hub-Signature-256 values given to verify_signature
VerifyBodies == {"body-1", "body-2"}
VerifySecrets == {"whsec", "other"}
VerifySignatures ==
    {<<>>, <<[scheme |-> "", hex |-> <<>>]>>}
    \cup { <<[scheme |-> sch, hex |-> HexDigest(sec, b)]>> :
             sch \in {"sha256=", "sha1=", "SHA256="},
             sec \in VerifySecrets, b \in VerifyBodies }

ApplyVerify(payload_body, secret_token, signature) ==
    Returned("verify_signature",
             [payload_body |-> payload_body, secret_token |-> secret_token,
              signature |-> signature],
             verify_signature(payload_body, secret_token, signature))


\* comment bodies given to extract_command
ExtractBodies ==
    CommentBodies
    \cup { <<Line("/preview", TRUE), Line("/preview now", FALSE)>>,
           <<Line("see /preview", FALSE), Line("/preview now", TRUE),
             Line("/preview", FALSE)>> }

ApplyExtractCommand(comment_body) ==
    Returned("extract_command", comment_body, extract_command(comment_body))

\* the issue of the payload: its html_url, and whether it carries the
\* pull_request object GitHub adds to the issues that are pull requests
IssueInputs ==
    { [html_url |-> "https://github.com/octo/app/pull/7", pull_request |-> TRUE],
      [html_url |-> "https://github.com/octo/app/issues/7", pull_request |-> FALSE],
      [html_url |-> "https://github.com/octo/pull-app/issues/7",
       pull_request |-> FALSE] }

\* issue_comment payloads given to parse_issue_comment_event
ParsePayloads ==
    [comment_body : CommentBodies,
     repository_id : RepositoryIdInputs,
     action : ActionInputs,
     issue : IssueInputs,
     number : PrNumberInputs,
     owner_login : OwnerInputs,
     repository_name : RepoNameInputs]

\* WebhookParser.parse_issue_comment_event(payload)
parse_issue_comment_event(payload) ==
    IF payload.action # "created" THEN <<>>
    ELSE IF ~ContainsPull(payload.issue.html_url) THEN <<>>
    ELSE IF ~IntTruthy(payload.number) THEN <<>>
    ELSE IF ~(Truthy(payload.owner_login) /\ Truthy(payload.repository_name))
    THEN <<>>
    ELSE IF extract_command(payload.comment_body) = <<>> THEN <<>>
    ELSE <<[pr_number |-> payload.number[1],
            comment_body |-> payload.comment_body,
            command |-> extract_command(payload.comment_body)[1],
            repository_id |-> payload.repository_id,
            repo_owner |-> payload.owner_login[1],
            repo_name |-> payload.repository_name[1]]>>

ApplyParse(payload) ==
    Returned("parse_issue_comment_event", payload, parse_issue_comment_event(payload))

\* header values, repository ids and payload installation ids given to
\* WebhookParser.extract_installation_id
ResolverHeaders == HeaderInputs \cup {<<"0">>, <<"">>}
ResolverRepositoryIds == RepositoryIdInputs \cup {<<55>>}
ResolverPayloadIds == PayloadInstallationInputs \cup {<<900>>, <<0>>}

ApplyExtractInstallation(header, repository_id, payload_installation) ==
    Returned("extract_installation_id",
             [header |-> header, repository_id |-> repository_id,
              payload_installation |-> payload_installation],
             InstallationFromRequest(header, repository_id, payload_installation))

\* installation lists and owners given to the choice among the installations
ListedInstallations ==
    InstallationLists
    \cup { <<Installation(79, "Octo")>>,
           <<Installation(78, "someone"), Installation(79, "Octo"),
             Installation(81, "octo")>>,
           <<Installation(81, "octo"), Installation(78, "someone")>> }

ListOwners == {"octo", "OCTO", "nobody"}

ApplyInstallationFromList(installations, repo_owner) ==
    Returned("find_installation_from_list",
             [installations |-> installations,
              repo_owner |-> repo_owner],
             InstallationFromList(installations, repo_owner))

\* documents of the collection: written by a first claim, and then possibly
\* by an update or by a release
ClaimedDocuments ==
    { ClaimWrite(FALSE, <<>>, [claimed_by |-> cb, key |-> k, attrs |-> a], 1,
                 HOSTNAME("p1")) :
        k \in Keys, a \in AttrChoices, cb \in ClaimedByInputs }

StoredDocuments ==
    ClaimedDocuments
    \cup { ReleaseWrite(d, 2) : d \in ClaimedDocuments }
    \cup { UpdateWrite(d, st, r.preview_url, r.release_name, r.namespace, 2) :
             d \in ClaimedDocuments, st \in StatusInputs, r \in ResultInputs }

\* update_deployment with the same arguments, once and then once more
ApplyUpdateTwice(doc, status, r) ==
    LET first == UpdateWrite(doc, status, r.preview_url, r.release_name,
                             r.namespace, 3)
    IN Returned("update_deployment_twice",
                [status |-> status,
                 doc |-> doc,
                 result |-> r],
                [once |-> first,
                 twice |-> UpdateWrite(first, status, r.preview_url,
                                       r.release_name, r.namespace, 4)])

\* release_claim, once and then once more
ApplyReleaseTwice(doc) ==
    LET first == ReleaseWrite(doc, 3)
    IN Returned("release_claim_twice", [doc |-> doc],
                [once |-> first, twice |-> ReleaseWrite(first, 4)])

(* ------------------------------------------------------------------ *)
(* githubapp/queue_client.py                                           *)
(* ------------------------------------------------------------------ *)
\* os.getenv of DEPLOYER_URL, CLOUD_TASKS_PROJECT and GOOGLE_CLOUD_PROJECT
DeployerUrlInputs == {<<>>, <<"">>, <<"https://deployer">>}
CloudTasksProjectInputs == {<<>>, <<"tasks-project">>}
GoogleCloudProjectInputs == {<<>>, <<"cloud-project">>}

\* how the try block ends: the import fails, CloudTasksClient() raises,
\* json.dumps(payload) raises, create_task raises, or the task is created
CreateOutcomes ==
    {"import_error", "client_error", "payload_error", "create_error", "created"}

\* the requests made to the queue before the try block ends
CreateCalls(outcome) ==
    IF outcome \in {"create_error", "created"} THEN <<"create_task">> ELSE <<>>

\* variant: an exception of the try block reaches the caller
enqueue_uncaught(deployer_url, tasks_project, cloud_project, outcome) ==
    IF ~Truthy(deployer_url)
    THEN [calls |-> <<>>,
          accepted |-> FALSE,
          raised |-> FALSE]
    ELSE IF ~(Truthy(tasks_project) \/ Truthy(cloud_project))
    THEN [calls |-> <<>>,
          accepted |-> FALSE,
          raised |-> FALSE]
    ELSE [calls |-> CreateCalls(outcome),
          accepted |-> outcome = "created",
          raised |-> outcome # "created"]

\* enqueue_deployment_task: the two configuration checks, then the try block
\* whose `except Exception` returns False
enqueue_deployment_task(deployer_url, tasks_project, cloud_project, outcome) ==
    IF ~Truthy(deployer_url)
    THEN [calls |-> <<>>,
          accepted |-> FALSE,
          raised |-> FALSE]
    ELSE IF ~(Truthy(tasks_project) \/ Truthy(cloud_project))
    THEN [calls |-> <<>>,
          accepted |-> FALSE,
          raised |-> FALSE]
    ELSE IF outcome = "created"
    THEN [calls |-> CreateCalls(outcome),
          accepted |-> TRUE,
          raised |-> FALSE]
    ELSE [calls |-> CreateCalls(outcome),
          accepted |-> FALSE,
          raised |-> FALSE]

ApplyEnqueue(deployer_url, tasks_project, cloud_project, outcome) ==
    Returned("enqueue_deployment_task",
             [outcome |-> outcome,
              deployer_url |-> deployer_url,
              tasks_project |-> tasks_project,
              cloud_project |-> cloud_project],
             enqueue_deployment_task(deployer_url, tasks_project, cloud_project,
                                     outcome))

FunctionNext ==
    \/ \E payload_body \in VerifyBodies, secret_token \in VerifySecrets,
          signature \in VerifySignatures :
          ApplyVerify(payload_body, secret_token, signature)
    \/ \E payload \in ParsePayloads : ApplyParse(payload)
    \/ \E comment_body \in ExtractBodies : ApplyExtractCommand(comment_body)
    \/ \E header \in ResolverHeaders, repository_id \in ResolverRepositoryIds,
          payload_installation \in ResolverPayloadIds :
          ApplyExtractInstallation(header, repository_id, payload_installation)
    \/ \E installations \in ListedInstallations, repo_owner \in ListOwners :
          ApplyInstallationFromList(installations, repo_owner)
    \/ \E doc \in StoredDocuments, status \in StatusInputs, r \in ResultInputs :
          ApplyUpdateTwice(doc, status, r)
    \/ \E doc \in StoredDocuments : ApplyReleaseTwice(doc)
    \/ \E deployer_url \in DeployerUrlInputs,
          tasks_project \in CloudTasksProjectInputs,
          cloud_project \in GoogleCloudProjectInputs, outcome \in CreateOutcomes :
          ApplyEnqueue(deployer_url, tasks_project, cloud_project, outcome)

FunctionSpec == Init /\ [][FunctionNext]_vars

(* ------------------------------------------------------------------ *)
(* Properties                                                          *)
(* ------------------------------------------------------------------ *)
\* the step completes an operation op
Answered(op) == last'.seq # last.seq /\ last'.op = op

\* the status of document k before the step ("<absent>" without a document)
StatusBefore(k) == StatusOf(DocGet(store, k))

\* C1: while a key's record is absent or PENDING and only claims run on it, in
\* any interleaving of their reads and commits at most one claim is answered
\* True, and a claim is answered False only after one was answered True: of the
\* claims that have returned, exactly one returned True.
C1_ExactlyOneClaimWins ==
    \A k \in Keys :
        epochClaimable[k] =>
            /\ nTrue[k] <= 1
            /\ (nFalse[k] > 0 => nTrue[k] = 1)

\* two claims overlapped on a claimable key: the loser read it claimable, lost
\* the commit, ran again and was refused
C1_Witness ==
    /\ last.op = "claim" /\ last.result = "False" /\ last.attempts = 2
    /\ epochClaimable[last.key] /\ nTrue[last.key] = 1 /\ nFalse[last.key] = 1

\* C2: a claim on a key whose record is absent or PENDING returns True and
\* leaves the record CLAIMED; an absent record is created by the call.
C2_ClaimSucceedsOnAbsentOrPending ==
    [][ (Answered("claim") /\ StatusBefore(last'.key) \in {"<absent>", STATUS_PENDING})
        => /\ last'.result = "True"
           /\ last'.key \in DOMAIN store'
           /\ store'[last'.key].status = STATUS_CLAIMED ]_vars

\* a claim was answered True on a record that existed and was PENDING
C2_Witness ==
    /\ last.op = "claim" /\ last.result = "True"
    /\ viaClaim[last.key] = "reclaimed"
    /\ store[last.key].status = STATUS_CLAIMED

\* C3: a claim on a key whose record is CLAIMED or DEPLOYED returns False and
\* writes nothing: the whole collection is the same after the call.
C3_RefusedClaimWritesNothing ==
    [][ (Answered("claim") /\ StatusBefore(last'.key) \in {STATUS_CLAIMED, STATUS_DEPLOYED})
        => /\ last'.result = "False"
           /\ store' = store ]_vars

\* a claim was refused on a DEPLOYED record
C3_Witness ==
    /\ last.op = "claim" /\ last.result = "False"
    /\ store[last.key].status = STATUS_DEPLOYED

\* C4 (as claimed): a claim on a FAILED record returns False and does not make
\* the record CLAIMED.
C4_FailedIsTerminalForClaim ==
    [][ (Answered("claim") /\ StatusBefore(last'.key) = STATUS_FAILED)
        => /\ last'.result = "False"
           /\ store'[last'.key].status # STATUS_CLAIMED ]_vars

\* the status of document k becomes CLAIMED in the step
BecomesClaimed(k) ==
    /\ StatusBefore(k) # STATUS_CLAIMED
    /\ k \in DOMAIN store'
    /\ store'[k].status = STATUS_CLAIMED

\* C7 (as claimed): for every key at most one process holds the claim (was
\* answered True with no release or terminal update applied since), and a
\* record becomes CLAIMED only by a claim transaction.
C7_SingleClaimant ==
    [][ \A k \in Keys :
          /\ Cardinality(holders'[k]) <= 1
          /\ (BecomesClaimed(k) => (Answered("claim") /\ last'.key = k)) ]_vars

\* C8: after claim(key) = True and then release(key), the next claim(key)
\* returns True again and leaves the record CLAIMED.
C8_ReclaimAfterRelease ==
    [][ (Answered("claim") /\ viaClaim[last'.key] = "released")
        => /\ last'.result = "True"
           /\ store'[last'.key].status = STATUS_CLAIMED ]_vars

\* the sequence claim = True, release, claim = True has been run on a key
C8_Witness ==
    \E k \in Keys :
        /\ viaClaim[k] = "reclaimed"
        /\ last.op = "claim" /\ last.key = k /\ last.result = "True"
        /\ nTrue[k] = 1

\* C9 (as claimed): release applied to a DEPLOYED or FAILED record does not
\* make it PENDING, and once a key is DEPLOYED no sequence of release and
\* claim calls gets a claim answered True.
C9_ReleaseOnlyFromClaimed ==
    [][ /\ (Answered("release") /\ last'.result = "ok"
              /\ StatusBefore(last'.key) \in {STATUS_DEPLOYED, STATUS_FAILED})
           => store'[last'.key].status # STATUS_PENDING
        /\ (Answered("claim") /\ deployedRC[last'.key])
           => last'.result = "False" ]_vars

\* the step completes update(key, "deployed", preview_url=U) on an existing record
UpdateDeployedWithUrl ==
    /\ Answered("update") /\ last'.result = "ok"
    /\ last'.args.status = <<STATUS_DEPLOYED>>
    /\ last'.args.preview_url # <<>>
    /\ last'.args.release_name = <<>>
    /\ last'.args.namespace = <<>>

\* C10 (as claimed): update(key, "deployed", preview_url=U) on an existing
\* record, then get(key): status "deployed", preview_url U, and every other
\* field, updated_at included, as before the update.
C10_UpdateChangesOnlyStatusAndUrl ==
    [][ UpdateDeployedWithUrl
        => get_deployment(store', last'.key) =
             <<[get_deployment(store, last'.key)[1] EXCEPT
                   !.status = STATUS_DEPLOYED,
                   !.preview_url = last'.args.preview_url]>> ]_vars

\* C10 (amended): ... and every other field except updated_at as before the
\* update; updated_at is the time of the update.
C10_UpdateChangesStatusUrlAndUpdatedAt ==
    [][ UpdateDeployedWithUrl
        => get_deployment(store', last'.key) =
             <<[get_deployment(store, last'.key)[1] EXCEPT
                   !.status = STATUS_DEPLOYED,
                   !.preview_url = last'.args.preview_url,
                   !.updated_at = clock]>> ]_vars

\* update(key, "deployed", preview_url=U) was applied, later than the record's
\* creation, to a record that carried a release name
C10_Witness ==
    /\ last.op = "update" /\ last.result = "ok"
    /\ last.args.status = <<STATUS_DEPLOYED>>
    /\ last.args.preview_url # <<>> /\ last.args.release_name = <<>>
    /\ store[last.key].status = STATUS_DEPLOYED
    /\ store[last.key].preview_url = last.args.preview_url
    /\ store[last.key].release_name # <<>>
    /\ store[last.key].claimed_by # <<>>

\* the tasks in the queue for key k, the acknowledgements posted for key k
EnqueuedFor(k) == {i \in DOMAIN queue : queue[i].key = <<k>>}

AcksFor(cs, k) == {i \in DOMAIN cs : cs[i].kind = "ack" /\ cs[i].key = <<k>>}

\* C5: whatever the number of deliveries that resolve to one (repository, PR,
\* commit), handled concurrently or one after the other, at most one
\* deployment task is in the queue for that key (no release happens here).
C5_AtMostOneTaskPerKey ==
    \A k \in WebKeys : Cardinality(EnqueuedFor(k)) <= 1

\* two handlers have both answered 200 after resolving the same key
C5_Witness ==
    \E k \in WebKeys :
        \A h \in Handlers :
            /\ hpc[h] = "done"
            /\ KeyOf(h) = <<k>>
            /\ resp[h] = [status |-> 200, message |-> "waaaa"]

\* C6: a handler that finishes a delivery whose key is recorded CLAIMED or
\* DEPLOYED answers 200, enqueues nothing and posts no comment; and no key
\* ever has more than one acknowledgement comment.
C6_DuplicateIsSuppressed ==
    [][ /\ \A h \in Handlers :
              ( /\ hpc[h] # "done"
                /\ hpc'[h] = "done"
                /\ KeyOf(h) # <<>>
                /\ StatusOf(DocGet(store, KeyOf(h)[1]))
                       \in {STATUS_CLAIMED, STATUS_DEPLOYED} )
              => ( /\ resp'[h].status = 200
                   /\ queue' = queue
                   /\ comments' = comments )
        /\ \A k \in WebKeys : Cardinality(AcksFor(comments', k)) <= 1 ]_vars

\* C11: an update of a key that has no record is answered with the NotFound
\* error, and the step leaves the store as it was: no record is created.
C11_UpdateOfMissingKeyFails ==
    [][ \A k \in Keys :
          (Answered("update") /\ last'.key = k /\ k \notin DOMAIN store)
          => (last'.result = "NotFound" /\ store' = store) ]_vars

\* an update was just answered NotFound and its key has no record
C11_Witness ==
    /\ last.op = "update"
    /\ last.result = "NotFound"
    /\ last.key \notin DOMAIN store

\* C12: verify_signature returns true exactly when the header is "sha256="
\* followed by the hex HMAC-SHA256 of the body under the secret; it returns
\* false for an absent or empty header and for one that does not begin with
\* "sha256="; and from an accepted triple, another body, another secret or
\* another header is refused.
C12_VerifyIffExpectedSignature ==
    fn = "verify_signature" =>
        LET b == fnArgs.payload_body
            sec == fnArgs.secret_token
            h == fnArgs.signature
        IN
        /\ fnResult = (h = <<[scheme |-> "sha256=", hex |-> HexDigest(sec, b)]>>)
        /\ ( \/ h = <<>>
             \/ h = <<[scheme |-> "", hex |-> <<>>]>>
             \/ h[1].scheme # "sha256=" ) => ~fnResult
        /\ fnResult =>
              /\ \A b2 \in VerifyBodies \ {b} : ~verify_signature(b2, sec, h)
              /\ \A sec2 \in VerifySecrets \ {sec} : ~verify_signature(b, sec2, h)
              /\ \A h2 \in VerifySignatures \ {h} : ~verify_signature(b, sec, h2)

\* a signature was accepted
C12_Witness == fn = "verify_signature" /\ fnResult = TRUE

\* the delivery handler h has answered did not carry a valid signature
SignatureRefused(h) ==
    /\ hpc[h] = "done"
    /\ hloc[h].body # <<>>
    /\ ~verify_signature(hloc[h].body[1], GITHUB_WEBHOOK_SECRET, hloc[h].signature)

C14_StatusIs401Or400Or200 ==
    \A h \in Handlers :
        (hpc[h] = "done" /\ hloc[h].body # <<>>) =>
            resp[h].status =
                IF SignatureRefused(h) THEN 401
                ELSE IF hloc[h].json = "invalid" THEN 400
                ELSE 200

\* the lines of a comment body whose trimmed text starts with "/preview"
PreviewLines(comment_body) ==
    {i \in 1..Len(comment_body) : StartsWithPreview(comment_body[i])}

\* C15: parse returns absent when the action is not "created", the issue is
\* not a pull request, the PR number, the owner login or the repository name
\* is missing, or no line of the comment starts with "/preview" once trimmed;
\* in every other case it returns an event whose command is "preview".
C15_ParseAcceptsPreviewOnPullRequests ==
    fn = "parse_issue_comment_event" =>
        LET rejected ==
                \/ fnArgs.action # "created"
                \/ ~fnArgs.issue.pull_request
                \/ ~IntTruthy(fnArgs.number)
                \/ ~Truthy(fnArgs.owner_login)
                \/ ~Truthy(fnArgs.repository_name)
                \/ PreviewLines(fnArgs.comment_body) = {}
        IN IF rejected THEN fnResult = <<>>
           ELSE fnResult # <<>> /\ fnResult[1].command.command = "preview"

\* C16: extract_command returns nothing when no line starts with "/preview";
\* otherwise its raw text is the trimmed text of the first such line, and it
\* is the same for every comment that agrees up to that line.
C16_FirstPreviewLineWins ==
    fn = "extract_command" =>
        LET hits == PreviewLines(fnArgs) IN
        IF hits = {} THEN fnResult = <<>>
        ELSE LET first == CHOOSE i \in hits : \A j \in hits : i <= j IN
             /\ fnResult = <<[command |-> "preview", raw |-> fnArgs[first].text]>>
             /\ \A other \in ExtractBodies :
                   ( /\ Len(other) >= first
                     /\ SubSeq(other, 1, first) = SubSeq(fnArgs, 1, first) )
                   => extract_command(other) = fnResult

\* the command came from a line that is not the first one, ahead of another
\* line that starts with "/preview" and reads differently
C16_Witness ==
    /\ fn = "extract_command"
    /\ fnResult # <<>>
    /\ \E i, j \in PreviewLines(fnArgs) :
          i > 1 /\ i < j /\ fnArgs[i].text # fnArgs[j].text
          /\ fnResult[1].raw = fnArgs[i].text

\* C17: with everything else in order, parse accepts a comment exactly when
\* its issue carries the pull-request marker, whatever its html_url contains.
C17_DetectionUsesPullRequestMarker ==
    ( /\ fn = "parse_issue_comment_event"
      /\ fnArgs.action = "created"
      /\ IntTruthy(fnArgs.number)
      /\ Truthy(fnArgs.owner_login)
      /\ Truthy(fnArgs.repository_name)
      /\ PreviewLines(fnArgs.comment_body) # {} )
    => (fnResult # <<>> <=> fnArgs.issue.pull_request)

\* the integer the header holds (<<>> for no header or no integer)
HeaderInt(header) == IF Truthy(header) THEN ParseInt(header[1]) ELSE <<>>

\* C18: when the integer parsed from the header equals the payload's
\* repository id, the resolution does not return it for the header: its result
\* is the payload's installation.id, absent when the payload has none.
C18_HeaderEqualToRepositoryIdIsDiscarded ==
    ( /\ fn = "extract_installation_id"
      /\ HeaderInt(fnArgs.header) # <<>>
      /\ IntTruthy(fnArgs.repository_id)
      /\ HeaderInt(fnArgs.header) = fnArgs.repository_id )
    => fnResult = fnArgs.payload_installation

\* the header held the repository id and the payload's installation id came out
C18_Witness ==
    /\ fn = "extract_installation_id"
    /\ fnArgs.header = <<"900">>
    /\ fnArgs.repository_id = <<900>>
    /\ fnArgs.payload_installation = <<66>>
    /\ fnResult = <<66>>

\* the installation id the header gives: its integer, unless that is zero or
\* the repository id
UsableHeaderId(header, repository_id) ==
    IF HeaderInt(header) = <<>> \/ ~IntTruthy(HeaderInt(header)) THEN <<>>
    ELSE IF IntTruthy(repository_id) /\ HeaderInt(header) = repository_id THEN <<>>
    ELSE HeaderInt(header)

\* the calls of the API fallback
LookupCalls == {"user_lookup", "org_lookup", "list_installations"}

\* C19: for a delivery that passes the head of the handler, a header integer
\* other than the repository id is the installation id whatever the payload
\* holds, and no lookup follows; otherwise a payload installation.id is the
\* installation id, and no lookup follows; the handler turns to the API only
\* when both gave nothing, and every API lookup starts without an id.
C19_HeaderThenPayloadThenApi ==
    [][ \A h \in Handlers :
          /\ ( /\ deliveries' = deliveries + 1
               /\ hpc'[h] \in {"lookup_user", "filters"} )
             => \A owner \in OwnerInputs, repository_id \in RepositoryIdInputs,
                   header \in HeaderInputs,
                   payload_installation \in PayloadInstallationInputs :
                   HandleRequest(h, "body-1", ValidSignature, "object",
                                 "issue_comment", owner, repository_id, header,
                                 payload_installation)
                   => LET from_header == UsableHeaderId(header, repository_id) IN
                      /\ from_header # <<>> =>
                            ( /\ hloc'[h].installation_id = from_header
                              /\ hpc'[h] = "filters" )
                      /\ (from_header = <<>> /\ IntTruthy(payload_installation)) =>
                            ( /\ hloc'[h].installation_id = payload_installation
                              /\ hpc'[h] = "filters" )
                      /\ hpc'[h] = "lookup_user" =>
                            ( /\ from_header = <<>>
                              /\ ~IntTruthy(payload_installation) )
          /\ ( /\ Len(trace'[h]) = Len(trace[h]) + 1
               /\ trace'[h][Len(trace'[h])] \in LookupCalls )
             => ~IntTruthy(hloc[h].installation_id) ]_vars

\* the header's installation id was taken and the handler is at its checks of
\* the event without having called the API
C19_Witness ==
    \E h \in Handlers :
        /\ hpc[h] = "filters"
        /\ hloc[h].installation_id = <<55>>
        /\ trace[h] = <<"verify", "json">>

\* the lookup was answered with status 200 and an installation id
Found(outcome, id) == outcome = "200" /\ IntTruthy(id)

\* a lookup of the direct kind ended in an exception
Raised(outcome) == outcome \in {"no_jwt", "raise"}

\* when the list call has to follow a direct lookup: whenever it produced no
\* installation id (always), or when it was answered and produced none
ListExpected(always, outcome, id) ==
    IF always THEN ~Found(outcome, id)
    ELSE ~Raised(outcome) /\ ~Found(outcome, id)

\* the order of the chain in every step: the user lookup comes first, a found
\* id ends the chain, the organisation is looked up exactly after a 404 of
\* the user lookup, the list call follows as ListExpected tells
ApiChain(always) ==
    \A h \in Handlers :
        /\ ( /\ Len(trace'[h]) = Len(trace[h]) + 1
             /\ trace'[h][Len(trace'[h])] \in {"org_lookup", "list_installations"} )
           => \E i \in 1..Len(trace[h]) : trace[h][i] = "user_lookup"
        /\ \A outcome \in UserLookupOutcomes, id \in LookupIdInputs :
              LookupUser(h, outcome, id) =>
                  /\ hpc'[h] = "lookup_org" <=> outcome = "404"
                  /\ Found(outcome, id) =>
                        (hpc'[h] = "filters" /\ hloc'[h].installation_id = id)
                  /\ outcome # "404" =>
                        (hpc'[h] = "lookup_list" <=> ListExpected(always, outcome, id))
        /\ \A outcome \in OrgLookupOutcomes, id \in LookupIdInputs :
              LookupOrg(h, outcome, id) =>
                  /\ Found(outcome, id) =>
                        (hpc'[h] = "filters" /\ hloc'[h].installation_id = id)
                  /\ hpc'[h] = "lookup_list" <=> ListExpected(always, outcome, id)

LoginMatches(installations, repo_owner) ==
    {i \in 1..Len(installations) :
        Lower(installations[i].login[1]) = Lower(repo_owner)}

\* C21: of the list of all installations, an empty list gives no id, a list
\* of one gives that installation's id whatever its login, a longer list gives
\* the id of the first installation whose login is repo_owner ignoring case,
\* and the id of the first listed installation when no login matches.
C21_ChoiceAmongInstallations ==
    fn = "find_installation_from_list" =>
        LET list == fnArgs.installations
            hits == LoginMatches(list, fnArgs.repo_owner)
        IN
        /\ Len(list) = 0 => fnResult = <<>>
        /\ Len(list) = 1 => fnResult = list[1].id
        /\ (Len(list) > 1 /\ hits # {}) =>
              \E i \in hits : (\A j \in hits : i <= j) /\ fnResult = list[i].id
        /\ (Len(list) > 1 /\ hits = {}) => fnResult = list[1].id

\* of three installations the second was chosen: it is the first of two whose
\* login is the owner's in another case
C21_Witness ==
    /\ fn = "find_installation_from_list"
    /\ Len(fnArgs.installations) = 3
    /\ LoginMatches(fnArgs.installations, fnArgs.repo_owner) = {2, 3}
    /\ fnArgs.installations[2].login # <<fnArgs.repo_owner>>
    /\ fnResult = fnArgs.installations[2].id

\* the requests of the token exchange, of the PR lookup and of a comment post
DeploymentCalls == {"token", "pr_fetch", "repo_check", "issue_check", "comment_post"}

CallsIn(h, names) == {i \in 1..Len(trace[h]) : trace[h][i] \in names}

\* the fields of an issue_comment event that asks for a preview
Qualifies(action, html_url, pr_number, repo_name, comment_body) ==
    /\ action = "created"
    /\ ContainsPull(html_url)
    /\ IntTruthy(pr_number)
    /\ Truthy(repo_name)
    /\ extract_command(comment_body) # <<>>

QualifyingEvents ==
    {e \in ActionInputs \X HtmlUrlInputs \X PrNumberInputs \X RepoNameInputs
            \X CommentBodies : Qualifies(e[1], e[2], e[3], e[4], e[5])}

\* C22: when the installation resolution gave no id for an event that
\* qualifies otherwise, the handler answers 200 with the remediation message
\* and makes no token exchange, no PR lookup, no claim, no enqueue and no
\* acknowledgement comment for that delivery.
C22_NoInstallationStopsTheDelivery ==
    [][\A h \in Handlers :
          (hpc[h] = "filters" /\ ~IntTruthy(hloc[h].installation_id)) =>
          \A e \in QualifyingEvents :
          Filters(h, e[1], e[2], e[3], e[4], e[5])
          => /\ hpc'[h] = "done"
             /\ resp'[h] = [status |-> 200, message |-> "no_installation"]
             /\ \A i \in 1..Len(trace'[h]) : trace'[h][i] \notin DeploymentCalls
             /\ comments' = comments
             /\ queue' = queue
             /\ store' = store]_vars

\* a delivery whose owner was looked up as user, as organisation and in the
\* list of installations without an id was answered with the remediation
\* message (given only to created comments on a pull request with a number)
C22_Witness ==
    \E h \in Handlers :
        /\ hpc[h] = "done"
        /\ resp[h] = [status |-> 200, message |-> "no_installation"]
        /\ hloc[h].installation_id = <<>>
        /\ CallsIn(h, {"list_installations"}) # {}
        /\ CallsIn(h, DeploymentCalls) = {}

\* handler h could not get the installation token or the head commit
TokenOrShaFailed(h) ==
    \/ \E outcome \in {"no_jwt", "raise", "401"} : TokenExchange(h, outcome)
    \/ \E outcome \in {"raise", "200", "404"}, sha \in {<<>>} \cup {<<x>> : x \in Shas} :
          /\ outcome # "200" \/ sha = <<>>
          /\ PrFetch(h, outcome, sha)

\* C23: when the installation token is not obtained or the head commit SHA
\* is not fetched (status without success, no head SHA, or an exception of
\* the call), the handler goes on to post a failure comment and to answer
\* 200, and never to the "deployment requested" acknowledgement.
C23_FailureIsCommentedAndStops ==
    [][\A h \in Handlers :
          (hpc[h] \in {"token", "pr_fetch"} /\ TokenOrShaFailed(h))
          => hpc'[h] \in {"post_pr_failed", "post_no_sha"}]_vars

\* C24: the "deployment requested" acknowledgement is posted, and the task is
\* enqueued, only after the claim for the key owner/repo#pr_number:commit_sha
\* returned true: a key with an acknowledgement or a task has a record that a
\* claim wrote.
C24_AckAndTaskOnlyAfterClaim ==
    \A k \in WebKeys :
        (AcksFor(comments, k) # {} \/ EnqueuedFor(k) # {})
        => k \in DOMAIN store

\* C25: a delivery that resolved its key and was answered without a task for
\* the key in the queue (the claim was refused, or the enqueue failed after
\* the claim) leaves the key's record CLAIMED or DEPLOYED, and when it posted
\* a comment that comment reports the failure.
C25_NoTaskLeavesClaimedRecord ==
    \A h \in Handlers :
        ( /\ hpc[h] = "done"
          /\ KeyOf(h) # <<>>
          /\ EnqueuedFor(KeyOf(h)[1]) = {} )
        => /\ StatusOf(DocGet(store, KeyOf(h)[1]))
                  \in {STATUS_CLAIMED, STATUS_DEPLOYED}
           /\ AcksFor(comments, KeyOf(h)[1]) = {}

\* the answers given to a signed delivery that does not ask for a preview
NotQualifyingAnswers ==
    {"event_ignored", "action_ignored", "not_a_pr", "no_pr_number",
     "missing_repo", "no_command"}

\* C26: the event is filtered before the installation is resolved: a signed
\* delivery that does not qualify (another event type, an action other than
\* created, a comment not on a PR, no PR number or repository, no /preview
\* line) is answered 200 without any GitHub API call.
C26_FilteringPrecedesResolution ==
    \A h \in Handlers :
        ( /\ hpc[h] = "done"
          /\ resp[h].status = 200
          /\ resp[h].message \in NotQualifyingAnswers )
        => CallsIn(h, LookupCalls \cup DeploymentCalls) = {}

\* the answer that follows a comment post made at program point at
AnswerAfterPost(at) ==
    [status |-> 200,
     message |-> CASE at = "post_ack" -> "waaaa"
                   [] at = "post_pr_failed" -> "pr_failed"
                   [] OTHER -> "no_sha"]

PostingPoints == {"post_ack", "post_pr_failed", "post_no_sha"}

C28_OnlyClaimCreatesRecords ==
    [][\A k \in Keys :
          (k \notin DOMAIN store /\ k \in DOMAIN store')
          => /\ Answered("claim")
             /\ last'.key = k
             /\ last'.result = "True"]_vars

\* three operations have been answered, the last of them an update, a
\* release or a get, no claim has succeeded, and the store is still empty
C28_Witness ==
    /\ store = <<>>
    /\ last.seq >= 3
    /\ last.op \in {"update", "release", "get"}
    /\ nTrue = [k \in Keys |-> 0]

Statuses == {STATUS_PENDING, STATUS_CLAIMED, STATUS_DEPLOYED, STATUS_FAILED}

\* C29: in every reachable state of the store, after claim, update, release
\* and get calls with any arguments, the status of every record is one of
\* pending, claimed, deployed, failed.
C29_StatusIsOneOfFour ==
    \A k \in DOMAIN store : store[k].status \in Statuses

\* C30: get(key) only reads: every record of the store is as before, a key
\* without a record gives absent, and a key with a record gives the record's
\* fields as they are now together with idempotency_key = the key asked for.
C30_GetIsReadOnly ==
    [][\A k \in Keys :
          (Answered("get") /\ last'.key = k)
          => /\ store' = store
             /\ k \notin DOMAIN store =>
                   (last'.result = "None" /\ last'.doc = <<>>)
             /\ k \in DOMAIN store =>
                   /\ last'.result = "dict"
                   /\ Len(last'.doc) = 1
                   /\ DOMAIN last'.doc[1] = DOMAIN store[k] \cup {"idempotency_key"}
                   /\ last'.doc[1].idempotency_key = k
                   /\ \A f \in DOMAIN store[k] \ {"idempotency_key"} :
                         last'.doc[1][f] = store[k][f]]_vars

\* a get has returned the record of a key after an update wrote a preview
\* URL to it
C30_Witness ==
    /\ last.op = "get"
    /\ last.key \in DOMAIN store
    /\ last.doc = <<store[last.key]>>
    /\ last.doc[1].preview_url # <<>>
    /\ last.doc[1].idempotency_key = last.key

\* a document without regard to its updated_at timestamp
IgnoringUpdatedAt(doc) == [doc EXCEPT !.updated_at = 0]

\* C31: update and release are idempotent writes: on an existing record,
\* update(key, s, url, rel, ns) applied twice in a row, or release(key)
\* applied twice in a row, leaves the record as one application does,
\* the updated_at timestamp aside.
C31_UpdateAndReleaseAreIdempotent ==
    fn \in {"update_deployment_twice", "release_claim_twice"} =>
        IgnoringUpdatedAt(fnResult.twice) = IgnoringUpdatedAt(fnResult.once)

\* a claimed record was released twice: the first release changed it, the
\* second changed its timestamp only
C31_Witness ==
    /\ fn = "release_claim_twice"
    /\ fnArgs.doc.status = STATUS_CLAIMED
    /\ fnArgs.doc.claimed_by # <<>>
    /\ fnResult.once.status = STATUS_PENDING
    /\ fnResult.once.claimed_by = <<>>
    /\ fnResult.twice # fnResult.once

CallCount(h, names) == Cardinality(CallsIn(h, names))

\* C32: while it handles one delivery the handler makes at most 3
\* installation-resolution calls (user, organisation, list), at most 1
\* installation-token exchange, at most 1 PR fetch and at most 1 comment
\* post (and at most one claim and one enqueue).
C32_RoundTripsPerDelivery ==
    \A h \in Handlers :
        /\ CallCount(h, LookupCalls) <= 3
        /\ CallCount(h, {"token"}) <= 1
        /\ CallCount(h, {"pr_fetch"}) <= 1
        /\ CallCount(h, {"comment_post"}) <= 1

\* the deployer URL and a project are configured
EnqueueConfigured ==
    /\ Truthy(fnArgs.deployer_url)
    /\ Truthy(fnArgs.tasks_project) \/ Truthy(fnArgs.cloud_project)

\* C33: enqueue reports its outcome as a boolean only: false without any
\* request to the queue when the deployer URL or the project is not
\* configured, false when the creation of the task raises, true only after
\* the queue accepted the task, and nothing is raised to the caller.
C33_EnqueueReportsABoolean ==
    fn = "enqueue_deployment_task" =>
        /\ ~fnResult.raised
        /\ fnResult.accepted \in BOOLEAN
        /\ ~EnqueueConfigured => (~fnResult.accepted /\ fnResult.calls = <<>>)
        /\ fnArgs.outcome # "created" => ~fnResult.accepted
        /\ fnResult.accepted =>
              (fnArgs.outcome = "created" /\ fnResult.calls = <<"create_task">>)
        /\ (EnqueueConfigured /\ fnArgs.outcome = "created") => fnResult.accepted

\* with the configuration in place (the project from GOOGLE_CLOUD_PROJECT)
\* create_task raised and enqueue returned false
C33_Witness ==
    /\ fn = "enqueue_deployment_task"
    /\ EnqueueConfigured
    /\ fnArgs.tasks_project = <<>>
    /\ fnArgs.outcome = "create_error"
    /\ fnResult.calls = <<"create_task">>
    /\ ~fnResult.accepted
    /\ ~fnResult.raised

\* the fields a claim of an existing record leaves alone
KeptByClaim ==
    {"repo", "pr_number", "commit_sha", "installation_id", "comment_id",
     "created_at", "preview_url", "release_name", "namespace", "idempotency_key"}

\* C34: a claim that succeeds on a record that exists already changes only
\* status, updated_at and claimed_by: repo, pr_number, commit_sha,
\* installation_id, comment_id, created_at, preview_url, release_name and
\* namespace keep their stored values, whatever attributes this claim passes.
C34_ReclaimKeepsTheAttributes ==
    [][\A k \in Keys :
          ( /\ Answered("claim")
            /\ last'.key = k
            /\ last'.result = "True"
            /\ k \in DOMAIN store )
          => /\ k \in DOMAIN store'
             /\ DOMAIN store'[k] = DOMAIN store[k]
             /\ \A f \in KeptByClaim : store'[k][f] = store[k][f]
             /\ store'[k].status = STATUS_CLAIMED]_vars

\* a released record has been claimed again, later than it was created: it
\* is claimed for the new claimant and still names its repository
C34_Witness ==
    \E k \in Keys :
        /\ last.op = "claim"
        /\ last.result = "True"
        /\ last.key = k
        /\ viaClaim[k] = "reclaimed"
        /\ store[k].status = STATUS_CLAIMED
        /\ store[k].repo = "octo/app"
        /\ store[k].claimed_by = <<"host-1">>
        /\ store[k].updated_at > store[k].created_at

\* C35: update and release take effect on any record that exists, whatever
\* its status and whoever is recorded in claimed_by: a late update or release
\* overwrites the record while another claimant holds the claim.
C35_LateWritesOverwrite ==
    [][\A k \in Keys :
          /\ (Answered("update") /\ last'.key = k /\ k \in DOMAIN store)
             => /\ last'.result = "ok"
                /\ store'[k].status = last'.args.status[1]
                /\ store'[k].claimed_by = store[k].claimed_by
          /\ (Answered("release") /\ last'.key = k /\ k \in DOMAIN store)
             => /\ last'.result = "ok"
                /\ store'[k].status = STATUS_PENDING
                /\ store'[k].claimed_by = <<>>]_vars

\* the fourth operation, an update, has written failed over a record that
\* names worker-a as its claimant
C35_Witness ==
    \E k \in Keys :
        /\ last.op = "update"
        /\ last.result = "ok"
        /\ last.key = k
        /\ last.seq = 4
        /\ store[k].status = STATUS_FAILED
        /\ store[k].claimed_by = <<"worker-a">>

\* the claimant a claim of process p records: the one passed in, else the
\* host name, else "unknown"
ClaimantOf(p) ==
    IF call[p].claimed_by # <<>> /\ call[p].claimed_by[1] # ""
    THEN call[p].claimed_by[1]
    ELSE IF HOSTNAME(p) # <<>> THEN HOSTNAME(p)[1] ELSE "unknown"

\* C36: where claims and releases made the record what it is, a CLAIMED
\* record has a claimed_by that is not null, set by the claim that made it
\* CLAIMED (the claimant passed in, else the host name, else "unknown"), and
\* a record made PENDING by a release has claimed_by null.
C36_ClaimedByFollowsClaimAndRelease ==
    /\ [](\A k \in Keys :
            /\ viaClaim[k] \in {"claimed", "reclaimed"}
               => /\ store[k].status = STATUS_CLAIMED
                  /\ store[k].claimed_by # <<>>
            /\ viaClaim[k] = "released"
               => /\ store[k].status = STATUS_PENDING
                  /\ store[k].claimed_by = <<>>)
    /\ [][\A p \in Procs :
            (pc[p] = "claim_commit" /\ pc'[p] = "idle"
             /\ Answered("claim") /\ last'.result = "True")
            => store'[call[p].key].claimed_by = <<ClaimantOf(p)>>]_vars
    /\ [][\A k \in Keys :
            (Answered("release") /\ last'.key = k /\ last'.result = "ok")
            => store'[k].claimed_by = <<>>]_vars

\* a released record was claimed again without a claimant, by the process
\* that has no host name
C36_Witness ==
    \E k \in Keys :
        /\ viaClaim[k] = "reclaimed"
        /\ store[k].status = STATUS_CLAIMED
        /\ store[k].claimed_by = <<"unknown">>

\* the header is there and int() of it raises ValueError
HeaderNotAnInteger(header) == Truthy(header) /\ ParseInt(header[1]) = <<>>

\* C37: a header value that cannot be parsed as an integer is treated as an
\* absent header: the resolution raises nothing, does not use the header and
\* gives the payload's installation.id (none when the payload has none, which
\* is where the API fallback starts).
C37_UnparseableHeaderIsIgnored ==
    (fn = "extract_installation_id" /\ HeaderNotAnInteger(fnArgs.header))
    => fnResult = fnArgs.payload_installation

\* the header was "abc" and the payload's installation id came out
C37_Witness ==
    /\ fn = "extract_installation_id"
    /\ fnArgs.header = <<"abc">>
    /\ fnArgs.payload_installation = <<66>>
    /\ fnResult = <<66>>

(* ------------------------------------------------------------------ *)
(* githubapp/github_client.py : GitHubClient.find_installation_id      *)
(* ------------------------------------------------------------------ *)
\* what find_installation_id does with the answer of the user lookup
\* (at = "user") or of the organisation lookup (at = "org"): it returns the
\* id of a 200 answer as it is, asks the organisation after a 404 of the
\* user lookup, and goes to the list of installations otherwise
find_installation_id(at, outcome, id) ==
    IF outcome = "200" THEN [id |-> id, next |-> "return"]
    ELSE IF at = "user" /\ outcome = "404" THEN [id |-> <<>>, next |-> "org"]
    ELSE [id |-> <<>>, next |-> "list"]

\* _find_installation_from_list: None unless the list is answered 200, the
\* id of the only installation, of the first one whose login is repo_owner
\* ignoring case, or of the first one
find_installation_from_list(outcome, installations, repo_owner) ==
    IF outcome # "200" THEN <<>>
    ELSE IF Len(installations) = 0 THEN <<>>
    ELSE IF Len(installations) = 1 THEN installations[1].id
    ELSE LET hits == {i \in 1..Len(installations) :
                        Lower(installations[i].login[1]) = Lower(repo_owner)}
         IN IF hits # {}
            THEN installations[CHOOSE i \in hits : \A j \in hits : i <= j].id
            ELSE installations[1].id

\* handler h went on after a lookup as find_installation_id does
SameContinuation(h, step) ==
    /\ step.next = "return" =>
          (hpc'[h] = "filters" /\ hloc'[h].installation_id = step.id)
    /\ step.next = "org" => hpc'[h] = "lookup_org"
    /\ step.next = "list" => hpc'[h] = "lookup_list"

\* the answers of a lookup that are responses, not exceptions
Answers(outcomes) == outcomes \ {"no_jwt", "raise"}

\* C38: the refactored resolver and the handler's inline chain agree: for
\* every answer of the user lookup, of the organisation lookup and of the
\* list of installations, a 200 without an id included, the handler gets
\* the installation id and makes the API calls that
\* GitHubClient.find_installation_id gets and makes.
C38_ResolversAgree ==
    [][\A h \in Handlers :
          /\ hpc[h] = "lookup_user" =>
                \A outcome \in Answers(UserLookupOutcomes), id \in LookupIdInputs :
                    LookupUser(h, outcome, id)
                    => SameContinuation(h, find_installation_id("user", outcome, id))
          /\ hpc[h] = "lookup_org" =>
                \A outcome \in Answers(OrgLookupOutcomes), id \in LookupIdInputs :
                    LookupOrg(h, outcome, id)
                    => SameContinuation(h, find_installation_id("org", outcome, id))
          /\ hpc[h] = "lookup_list" =>
                \A outcome \in Answers(ListOutcomes),
                   installations \in InstallationLists :
                    LookupList(h, outcome, installations)
                    => /\ hpc'[h] = "filters"
                       /\ hloc'[h].installation_id =
                             find_installation_from_list(outcome, installations,
                                                         hloc[h].repo_owner[1])]_vars

====
